---- MODULE Spec2Model ----
(***************************************************************************)
(* Model of adf-build/config.py: the Config class that loads adfconfig.yml, *)
(* derives and validates its fields, and stores them in Parameter Store.    *)
(*                                                                          *)
(* Python values are tagged records, so that None, strings, lists and       *)
(* mappings can be told apart the way the code tells them apart:            *)
(*   None        [t |-> "none"]                                             *)
(*   "abc"       [t |-> "str",  s  |-> "abc"]                               *)
(*   True        [t |-> "bool", b  |-> TRUE]                                *)
(*   [x, y]      [t |-> "list", v  |-> <<x, y>>]                            *)
(*   {k: x}      [t |-> "dict", kv |-> << <<"k", x>> >>]  (insertion order) *)
(*   an object   [t |-> "client", region |-> r, id |-> n]                   *)
(***************************************************************************)
EXTENDS Integers, Sequences, FiniteSets, TLC

VARIABLES
    doc,      \* what yaml.load returns for the file at config_path
    self,     \* the Config instance's __dict__
    phase,    \* where the caller / the running method is
    err,      \* the exception raised by the constructor, if any
    calls,    \* number of store_config calls started
    pc,       \* index of the next put_parameter of the running pass
    result,   \* outcome of the last store_config call
    log,      \* every put_parameter issued, in order (history)
    store     \* contents of the parameter stores, per region

vars == <<doc, self, phase, err, calls, pc, result, log, store>>

(***************************************************************************)
(* Bounds                                                                  *)
(***************************************************************************)
MaxCalls == 2

(***************************************************************************)
(* Python values                                                           *)
(***************************************************************************)
None == [t |-> "none"]
S(s) == [t |-> "str", s |-> s]
B(b) == [t |-> "bool", b |-> b]
L(v) == [t |-> "list", v |-> v]
D(kv) == [t |-> "dict", kv |-> kv]
Client(region, id) == [t |-> "client", region |-> region, id |-> id]

\* A key left out of the document (only used while building documents).
Absent == [t |-> "absent"]
Present(pairs) == SelectSeq(pairs, LAMBDA p : p[2] # Absent)
Doc(pairs) == D(Present(pairs))

IsNone(v) == v.t = "none"
IsList(v) == v.t = "list"
IsDict(v) == v.t = "dict"

\* dict.keys(), `k in d`, d.get(k, default), d.get(k)
Keys(d) == {d.kv[i][1] : i \in 1..Len(d.kv)}
Has(d, k) == k \in Keys(d)
Get(d, k, default) ==
    IF Has(d, k)
    THEN d.kv[CHOOSE i \in 1..Len(d.kv) : d.kv[i][1] = k][2]
    ELSE default
Get1(d, k) == Get(d, k, None)

\* bool(v) as used by `if self.config.get("scp"):`
Truthy(v) ==
    CASE v.t = "none" -> FALSE
      [] v.t = "str"  -> v.s # ""
      [] v.t = "bool" -> v.b
      [] v.t = "list" -> v.v # <<>>
      [] v.t = "dict" -> v.kv # <<>>
      [] OTHER        -> TRUE

RECURSIVE JoinComma(_)
JoinComma(strs) ==
    IF strs = <<>> THEN ""
    ELSE IF Len(strs) = 1 THEN strs[1]
    ELSE strs[1] \o ", " \o JoinComma(Tail(strs))

\* repr(v) and str(v)
RECURSIVE PyRepr(_)
PyRepr(v) ==
    CASE v.t = "none"   -> "None"
      [] v.t = "str"    -> "'" \o v.s \o "'"
      [] v.t = "bool"   -> IF v.b THEN "True" ELSE "False"
      [] v.t = "list"   ->
            "[" \o JoinComma([i \in 1..Len(v.v) |-> PyRepr(v.v[i])]) \o "]"
      [] v.t = "dict"   ->
            "{" \o JoinComma([i \in 1..Len(v.kv) |->
                      "'" \o v.kv[i][1] \o "': " \o PyRepr(v.kv[i][2])]) \o "}"
      [] v.t = "client" ->
            "<parameter_store.ParameterStore object at " \o ToString(v.id) \o ">"
PyStr(v) == IF v.t = "str" THEN v.s ELSE PyRepr(v)

(***************************************************************************)
(* Environment and module constants                                        *)
(***************************************************************************)
ADF_VERSION == "3.2.0"
AWS_REGION == "us-east-1"
ORGANIZATION_ID == "o-123456"
AVAILABLE_EXTENSIONS == <<"terraform">>

(***************************************************************************)
(* Exceptions: the kind raised and the source line that raises it          *)
(***************************************************************************)
NoError == [kind |-> "none", line |-> 0]
Raised(kind, line) == [kind |-> kind, line |-> line]
Outcome(e, s) == [err |-> e, self |-> s]

(***************************************************************************)
(* Config.__init__ before _load_config_file                                *)
(***************************************************************************)
NewConfig ==
    [ parameters_client         |-> Client(S(AWS_REGION), 0),
      config_path               |-> S("./adfconfig.yml"),
      organization_id           |-> S(ORGANIZATION_ID),
      client_deployment_region  |-> None,
      notification_type         |-> None,
      notification_endpoint     |-> None,
      config_contents           |-> None,
      config                    |-> None,
      deployment_account_region |-> None,
      notification_channel      |-> None,
      protected                 |-> None,
      target_regions            |-> L(<<>>),
      cross_account_access_role |-> None,
      extensions                |-> None ]

(***************************************************************************)
(* _parse_config, statement by statement                                   *)
(***************************************************************************)
\* How evaluating `x[0]` ends: "IndexError", "TypeError", "KeyError",
\* or "ok" when x has an element 0.
Subscript0(x) ==
    CASE x.t = "list" -> IF x.v = <<>> THEN "IndexError" ELSE "ok"
      [] x.t = "str"  -> IF x.s = "" THEN "IndexError" ELSE "ok"
      [] x.t = "dict" -> "KeyError"
      [] OTHER        -> "TypeError"

\* `x[0] is None`, for an x with an element 0: a character of a string is
\* never None.
FirstIsNone(x) == x.t = "list" /\ IsNone(x.v[1])

\* Variant: every null is dropped, wherever it stands.
TargetRegionsWithoutNulls(regions) ==
    IF IsList(regions)
    THEN L(SelectSeq(regions.v, LAMBDA x : ~IsNone(x)))
    ELSE regions

\* self.target_regions = [] if regions[0] is None else regions
TargetRegions(regions) == IF FirstIsNone(regions) THEN L(<<>>) ELSE regions

\* Variant: the last configured endpoint decides.
LastEndpoint(endpoints) == endpoints.v[Len(endpoints.v)]

\* self.config.get("main-notification-endpoint")[0]
FirstEndpoint(endpoints) == endpoints.v[1]

\* "lambda" if adf_config_notification_type == "slack" else "email"
NotificationType(type) == IF type = S("slack") THEN S("lambda") ELSE S("email")

\* None if self.notification_type == "email" else self.notification_endpoint
NotificationChannel(ntype, endpoint) ==
    IF ntype = S("email") THEN None ELSE endpoint

DefaultExtension == D(<< <<"enabled", B(FALSE)>> >>)

\* for unconfigured_extension in AVAILABLE_EXTENSIONS - self.extensions.keys():
\*     self.extensions[unconfigured_extension] = {"enabled": False}
RECURSIVE AddUnconfigured(_, _)
AddUnconfigured(extensions, names) ==
    IF names = <<>> THEN extensions
    ELSE AddUnconfigured(
            IF Has(extensions, Head(names)) THEN extensions
            ELSE D(Append(extensions.kv, <<Head(names), DefaultExtension>>)),
            Tail(names))

\* Variant: every known extension is reset to its default, configured or not.
ResetKnownExtensions(extensions) ==
    AddUnconfigured(
        D(SelectSeq(extensions.kv,
                    LAMBDA p : \A i \in 1..Len(AVAILABLE_EXTENSIONS) :
                                  p[1] # AVAILABLE_EXTENSIONS[i])),
        AVAILABLE_EXTENSIONS)

ConfigureDefaultExtensionsBehavior(extensions) ==
    AddUnconfigured(extensions, AVAILABLE_EXTENSIONS)

\* d[k] = v on a mapping that already has the key k
SetItem(d, k, v) ==
    D([i \in 1..Len(d.kv) |-> IF d.kv[i][1] = k THEN <<k, v>> ELSE d.kv[i]])

(***************************************************************************)
(* _validate                                                               *)
(***************************************************************************)
\* if None in (cross_account_access_role, config, deployment_account_region,
\*             organization_id, target_regions, config.get("moves"),
\*             config.get("main-notification-endpoint")):
MissingRequired(s) ==
    \E x \in { s.cross_account_access_role,
               s.config,
               s.deployment_account_region,
               s.organization_id,
               s.target_regions,
               Get1(s.config, "moves"),
               Get1(s.config, "main-notification-endpoint") } : IsNone(x)

\* Variant: only a keep-default-scp key that is there is checked.
ScpAssertionOnlyForPresentKey(config) ==
    /\ Truthy(Get1(config, "scp"))
    /\ Has(Get1(config, "scp"), "keep-default-scp")
    /\ Get1(Get1(config, "scp"), "keep-default-scp")
           \notin {S("enabled"), S("disabled")}

\* if self.config.get("scp"):
\*     assert self.config.get("scp").get("keep-default-scp") in ["enabled", "disabled"]
ScpAssertionFails(config) ==
    /\ Truthy(Get1(config, "scp"))
    /\ Get1(Get1(config, "scp"), "keep-default-scp")
           \notin {S("enabled"), S("disabled")}

\* Variant: the length test is off by one.
TooManyDeploymentRegionsOffByOne(region) == IsList(region) /\ Len(region.v) > 2

\* if isinstance(region, list): if len(region) > 1: raise ...
TooManyDeploymentRegions(region) == IsList(region) /\ Len(region.v) > 1

\* [self.deployment_account_region] = self.deployment_account_region
UnpackSingle(region) == region.v[1]

\* if not isinstance(self.target_regions, list): self.target_regions = [self.target_regions]
AsList(regions) == IF IsList(regions) THEN regions ELSE L(<<regions>>)

Validate(s) ==
    IF MissingRequired(s)
    THEN Outcome(Raised("InvalidConfigError", 63), s)
    ELSE IF ScpAssertionFails(s.config)
    THEN Outcome(Raised("InvalidConfigError", 75), s)
    ELSE IF TooManyDeploymentRegions(s.deployment_account_region)
    THEN Outcome(Raised("InvalidConfigError", 82), s)
    ELSE IF IsList(s.deployment_account_region)
            /\ s.deployment_account_region.v = <<>>
    THEN Outcome(Raised("ValueError", 86), s)
    ELSE LET s1 == IF IsList(s.deployment_account_region)
                   THEN [s EXCEPT !.deployment_account_region =
                                      UnpackSingle(s.deployment_account_region)]
                   ELSE s
         IN  Outcome(NoError,
                     [s1 EXCEPT !.target_regions = AsList(s1.target_regions)])

\* Lines 103-107: regions, deployment_account_region, target_regions
ParseRegions(s) ==
    LET cc      == s.config_contents
        section == Get(cc, "regions", D(<<>>))
    IN  IF ~IsDict(section)
        THEN Outcome(Raised("AttributeError", 103), s)
        ELSE LET regions == Get(section, "targets", L(<<>>))
                 s1 == [s EXCEPT !.deployment_account_region =
                                     Get1(section, "deployment-account")]
             IN  IF Subscript0(regions) # "ok"
                 THEN Outcome(Raised(Subscript0(regions), 107), s1)
                 ELSE Outcome(NoError,
                         [s1 EXCEPT !.target_regions = TargetRegions(regions)])

\* Lines 108-112: cross_account_access_role, config, protected
ParseRolesAndConfig(s) ==
    LET cc    == s.config_contents
        roles == Get(cc, "roles", D(<<>>))
    IN  IF ~IsDict(roles)
        THEN Outcome(Raised("AttributeError", 108), s)
        ELSE LET s1 == [s EXCEPT !.cross_account_access_role =
                                     Get1(roles, "cross-account-access"),
                                 !.config = Get1(cc, "config")]
             IN  IF ~IsDict(s1.config)
                 THEN Outcome(Raised("AttributeError", 112), s1)
                 ELSE Outcome(NoError,
                         [s1 EXCEPT !.protected =
                                        Get(s1.config, "protected", L(<<>>))])

\* Lines 116-127: notification_type, notification_endpoint, notification_channel
ParseNotification(s) ==
    LET endpoints == Get1(s.config, "main-notification-endpoint")
    IN  IF Subscript0(endpoints) # "ok"
        THEN Outcome(Raised(Subscript0(endpoints), 116), s)
        ELSE IF ~IsDict(FirstEndpoint(endpoints))
        THEN Outcome(Raised("AttributeError", 116), s)
        ELSE LET first    == FirstEndpoint(endpoints)
                 ntype    == NotificationType(Get1(first, "type"))
                 endpoint == Get1(first, "target")
             IN  Outcome(NoError,
                     [s EXCEPT !.notification_type = ntype,
                               !.notification_endpoint = endpoint,
                               !.notification_channel =
                                   NotificationChannel(ntype, endpoint)])

\* Lines 128-129: extensions. self.extensions is the very mapping held by
\* config_contents when the document has one, so the defaults land there too.
ParseExtensions(s) ==
    LET cc         == s.config_contents
        extensions == Get(cc, "extensions", D(<<>>))
    IN  IF ~IsDict(extensions)
        THEN Outcome(Raised("AttributeError", 134),
                     [s EXCEPT !.extensions = extensions])
        ELSE LET filled == ConfigureDefaultExtensionsBehavior(extensions)
             IN  Outcome(NoError,
                     [s EXCEPT !.extensions = filled,
                               !.config_contents =
                                   IF Has(cc, "extensions")
                                   THEN SetItem(cc, "extensions", filled)
                                   ELSE cc])

\* The statements run in order; the first exception ends _parse_config.
ParseConfig(s) ==
    LET o1 == ParseRegions(s)
        o2 == IF o1.err = NoError THEN ParseRolesAndConfig(o1.self) ELSE o1
        o3 == IF o2.err = NoError THEN ParseNotification(o2.self) ELSE o2
        o4 == IF o3.err = NoError THEN ParseExtensions(o3.self) ELSE o3
    IN  IF o4.err = NoError THEN Validate(o4.self) ELSE o4

\* self.config_contents = yaml.load(...); self._parse_config()
LoadConfig(s, d) == ParseConfig([s EXCEPT !.config_contents = d])

(***************************************************************************)
(* store_config: _store_config, then _store_cross_region_config            *)
(***************************************************************************)
\* self.__dict__, in the order __init__ assigns the attributes
DictOrder ==
    << "parameters_client", "config_path", "organization_id",
       "client_deployment_region", "notification_type",
       "notification_endpoint", "config_contents", "config",
       "deployment_account_region", "notification_channel", "protected",
       "target_regions", "cross_account_access_role", "extensions" >>

\* Variant: notification_type is not on the exclusion list.
ExcludedKeysWithoutNotificationType ==
    { "client", "client_deployment_region", "parameters_client",
      "config_contents", "config_path", "notification_endpoint", "extensions" }

\* Variant: client_deployment_region is not on the exclusion list.
ExcludedKeysWithoutDeploymentClient ==
    { "client", "parameters_client", "config_contents", "config_path",
      "notification_endpoint", "notification_type", "extensions" }

\* if key not in ("client", "client_deployment_region", ...)
ExcludedKeys ==
    { "client", "client_deployment_region", "parameters_client",
      "config_contents", "config_path", "notification_endpoint",
      "notification_type", "extensions" }

\* for key, value in self.__dict__.items(): put_parameter(key, str(value))
FieldWrites(s) ==
    LET kept == SelectSeq(DictOrder, LAMBDA k : k \notin ExcludedKeys)
    IN  [i \in 1..Len(kept) |-> <<kept[i], S(PyStr(s[kept[i]]))>>]

\* f"/adf/extensions/{extension}/{attribute}"
ExtensionKey(extension, attribute) ==
    "/adf/extensions/" \o extension \o "/" \o attribute

\* for attribute in attributes: put_parameter(key, str(attributes[attribute]))
AttributeWrites(extension, attributes) ==
    [i \in 1..Len(attributes.kv) |->
        << ExtensionKey(extension, attributes.kv[i][1]),
           S(PyStr(attributes.kv[i][2])) >>]

\* for extension, attributes in self.extensions.items(): ...
RECURSIVE ExtensionWritesFrom(_)
ExtensionWritesFrom(items) ==
    IF items = <<>> THEN <<>>
    ELSE AttributeWrites(Head(items)[1], Head(items)[2])
            \o ExtensionWritesFrom(Tail(items))

ExtensionWrites(s) == ExtensionWritesFrom(s.extensions.kv)

\* The put_parameter calls of _store_config, in order: <<key, value>>
PrimaryWrites(s) == FieldWrites(s) \o ExtensionWrites(s)

\* Variant: the client is bound to the primary client's region.
PrimaryRegionClient(s, n) == Client(s.parameters_client.region, n)

\* ParameterStore(self.deployment_account_region, boto3), made by call n
DeploymentRegionClient(s, n) == Client(s.deployment_account_region, n)

\* The put_parameter calls of _store_cross_region_config, in order
ReplicaWrites(s) ==
    << <<"adf_version", S(ADF_VERSION)>>,
       <<"cross_account_access_role", s.cross_account_access_role>> >>

\* A parameter store keeps one value per (region, key): a put overwrites.
PutParameter(st, region, key, value) ==
    {e \in st : ~(e.region = region /\ e.key = key)}
        \cup {[region |-> region, key |-> key, value |-> value]}

LogEntry(n, pass, client, w, ok) ==
    [ call |-> n, pass |-> pass, client |-> client,
      key |-> w[1], value |-> w[2], ok |-> ok ]

\* Variant: a failed put_parameter is caught and tried again.
RetryFailure == [phase |-> phase, pc |-> pc, result |-> result]

\* No method of store_config catches an exception of put_parameter: it
\* leaves store_config and reaches the caller.
PropagateFailure ==
    [phase |-> "constructed", pc |-> 0, result |-> "PersistenceError"]

(***************************************************************************)
(* Documents                                                               *)
(***************************************************************************)
Slack == Doc(<< <<"type", S("slack")>>, <<"target", S("#chan")>> >>)
Email == Doc(<< <<"type", S("email")>>, <<"target", S("a@b.com")>> >>)
Untyped == Doc(<< <<"target", S("x@y.org")>> >>)

TargetsOptions ==
    { Absent, None, L(<<>>), L(<<None>>), L(<<None, S("eu-west-1")>>),
      L(<<S("eu-west-1"), S("eu-central-1")>>), L(<<S("eu-west-1"), None>>),
      S("eu-west-1"), S("") }

DeploymentAccountOptions ==
    { Absent, S("eu-central-1"), L(<<S("eu-central-1")>>),
      L(<<S("us-east-1"), S("us-west-2")>>), L(<<>>), L(<<None>>) }

RoleOptions == { Absent, None, S("adf-role") }

EndpointsOptions ==
    { Absent, L(<<>>), L(<<Slack>>), L(<<Slack, Email>>),
      L(<<Email, Slack>>), L(<<Untyped, Slack>>) }

ScpOptions ==
    { Absent, D(<<>>),
      D(<< <<"keep-default-scp", S("enabled")>> >>),
      D(<< <<"keep-default-scp", S("disabled")>> >>),
      D(<< <<"keep-default-scp", S("maybe")>> >>),
      D(<< <<"other", S("x")>> >>) }

MovesOptions == { Absent, L(<<S("safe")>>) }

MakeConfig(moves, endpoints, protected, scp) ==
    Doc(<< <<"moves", moves>>,
           <<"main-notification-endpoint", endpoints>>,
           <<"protected", protected>>,
           <<"scp", scp>> >>)

ConfigOptions ==
    { Absent }
    \cup { MakeConfig(moves, endpoints, Absent, scp) :
              moves \in MovesOptions,
              endpoints \in EndpointsOptions,
              scp \in ScpOptions }
    \cup { MakeConfig(L(<<S("safe")>>), endpoints, L(<<S("ou-123")>>), Absent) :
              endpoints \in EndpointsOptions }

Terraform == D(<< <<"enabled", B(TRUE)>>, <<"version", S("1.0")>> >>)
Custom == D(<< <<"enabled", B(TRUE)>> >>)

ExtensionsOptions ==
    { Absent, None, D(<<>>),
      D(<< <<"terraform", Terraform>> >>),
      D(<< <<"custom", Custom>> >>) }

MakeDoc(targets, region, role, config, extensions) ==
    Doc(<< <<"regions",
             IF targets = Absent /\ region = Absent THEN Absent
             ELSE Doc(<< <<"targets", targets>>,
                         <<"deployment-account", region>> >>)>>,
           <<"roles",
             IF role = Absent THEN Absent
             ELSE Doc(<< <<"cross-account-access", role>> >>)>>,
           <<"config", config>>,
           <<"extensions", extensions>> >>)

ValidConfig(endpoints) ==
    Doc(<< <<"moves", L(<<S("safe")>>)>>,
           <<"main-notification-endpoint", endpoints>>,
           <<"scp", D(<< <<"keep-default-scp", S("enabled")>> >>)>> >>)

StoreTargets == { L(<<S("eu-west-1"), S("eu-central-1")>>), S("eu-west-1") }

StoreRegions ==
    { S("eu-central-1"), S(AWS_REGION), L(<<S("eu-central-1")>>),
      L(<<S("us-east-1"), S("us-west-2")>>) }

StoreEndpoints == { L(<<Slack>>), L(<<Email, Slack>>) }

StoreExtensions ==
    { Absent, D(<< <<"custom", Custom>>, <<"terraform", Terraform>> >>) }

(***************************************************************************)
(* The state machine                                                       *)
(***************************************************************************)
Start ==
    /\ self = NewConfig
    /\ phase = "new"
    /\ err = NoError
    /\ calls = 0
    /\ pc = 0
    /\ result = "none"
    /\ log = <<>>
    /\ store = {}

\* Documents for store_config runs: they differ in what gets stored.
Init ==
    /\ \E targets \in StoreTargets, region \in StoreRegions,
          endpoints \in StoreEndpoints, extensions \in StoreExtensions :
            doc = MakeDoc(targets, region, S("adf-role"),
                          ValidConfig(endpoints), extensions)
    /\ Start

\* Documents for construction: every combination of the options.
InitParse ==
    /\ \E targets \in TargetsOptions, region \in DeploymentAccountOptions,
          role \in RoleOptions, config \in ConfigOptions,
          extensions \in ExtensionsOptions :
            doc = MakeDoc(targets, region, role, config, extensions)
    /\ Start

\* Config(...): _load_config_file -> _parse_config -> _validate
LoadConfigFile ==
    /\ phase = "new"
    /\ LET o == LoadConfig(self, doc)
       IN  /\ self' = o.self
           /\ err' = o.err
           /\ phase' = IF o.err = NoError THEN "constructed" ELSE "raised"
    /\ UNCHANGED <<doc, calls, pc, result, log, store>>

\* The caller calls store_config() on the constructed object.
StoreConfig ==
    /\ phase = "constructed"
    /\ calls < MaxCalls
    /\ calls' = calls + 1
    /\ phase' = "_store_config"
    /\ pc' = 1
    /\ result' = "running"
    /\ UNCHANGED <<doc, self, err, log, store>>

\* One put_parameter of _store_config; after the last one store_config goes
\* on to _store_cross_region_config, which first makes its client.
PutPrimary(ok) ==
    /\ phase = "_store_config"
    /\ LET w == PrimaryWrites(self)[pc]
       IN  /\ log' = Append(log, LogEntry(calls, "_store_config",
                                          self.parameters_client, w, ok))
           /\ store' = IF ok
                       THEN PutParameter(store, self.parameters_client.region,
                                         w[1], w[2])
                       ELSE store
    /\ IF ~ok
       THEN /\ phase' = PropagateFailure.phase
            /\ pc' = PropagateFailure.pc
            /\ result' = PropagateFailure.result
            /\ UNCHANGED self
       ELSE IF pc < Len(PrimaryWrites(self))
       THEN /\ pc' = pc + 1
            /\ UNCHANGED <<phase, result, self>>
       ELSE /\ phase' = "_store_cross_region_config"
            /\ pc' = 1
            /\ self' = [self EXCEPT !.client_deployment_region =
                                        DeploymentRegionClient(self, calls)]
            /\ UNCHANGED result
    /\ UNCHANGED <<doc, err, calls>>

\* One put_parameter of _store_cross_region_config; after the second one
\* store_config returns.
PutReplica(ok) ==
    /\ phase = "_store_cross_region_config"
    /\ LET w == ReplicaWrites(self)[pc]
       IN  /\ log' = Append(log, LogEntry(calls, "_store_cross_region_config",
                                          self.client_deployment_region, w, ok))
           /\ store' = IF ok
                       THEN PutParameter(store,
                                         self.client_deployment_region.region,
                                         w[1], w[2])
                       ELSE store
    /\ IF ~ok
       THEN /\ phase' = PropagateFailure.phase
            /\ pc' = PropagateFailure.pc
            /\ result' = PropagateFailure.result
       ELSE IF pc < Len(ReplicaWrites(self))
       THEN /\ pc' = pc + 1
            /\ UNCHANGED <<phase, result>>
       ELSE /\ phase' = "constructed"
            /\ pc' = 0
            /\ result' = "ok"
    /\ UNCHANGED <<doc, self, err, calls>>

Next ==
    \/ LoadConfigFile
    \/ StoreConfig
    \/ \E ok \in BOOLEAN : PutPrimary(ok)
    \/ \E ok \in BOOLEAN : PutReplica(ok)

Spec == Init /\ [][Next]_vars

NextParse == LoadConfigFile

SpecParse == InitParse /\ [][NextParse]_vars

(***************************************************************************)
(* What the document gives, read from doc independently of the parse       *)
(***************************************************************************)
GivenRegions == Get(doc, "regions", D(<<>>))
GivenTargets == Get1(GivenRegions, "targets")
GivenRegion == Get1(GivenRegions, "deployment-account")
GivenRole == Get1(Get(doc, "roles", D(<<>>)), "cross-account-access")
GivenConfig == Get1(doc, "config")
GivenMoves == IF IsDict(GivenConfig) THEN Get1(GivenConfig, "moves") ELSE None
GivenEndpoints ==
    IF IsDict(GivenConfig)
    THEN Get1(GivenConfig, "main-notification-endpoint") ELSE None
GivenScp == IF IsDict(GivenConfig) THEN Get1(GivenConfig, "scp") ELSE None
GivenExtensions == Get(doc, "extensions", D(<<>>))

Attempted == phase # "new"
Succeeded == phase \notin {"new", "raised"}

\* The document with regions.deployment-account replaced by r
DocWithRegion(r) ==
    LET section == D(SelectSeq(GivenRegions.kv,
                               LAMBDA p : p[1] # "deployment-account")
                     \o << <<"deployment-account", r>> >>)
    IN  D(SelectSeq(doc.kv, LAMBDA p : p[1] # "regions")
          \o << <<"regions", section>> >>)

\* The document is valid but perhaps for its deployment-account region.
OtherwiseValid == LoadConfig(NewConfig, DocWithRegion(S("eu-central-1"))).err = NoError

\* _validate got as far as its scp check / _parse_config got past line 129
ReachedScpCheck == Attempted /\ (err = NoError \/ err.line \in {75, 82, 86})
ExtensionsParsed == Attempted /\ (err = NoError \/ err.line \in {63, 75, 82, 86})

(***************************************************************************)
(* Construction: C1 - C6, under SpecParse                                   *)
(***************************************************************************)
\* C1: whenever one of cross_account_access_role, config,
\* deployment_account_region, organization_id, target_regions, config.moves,
\* config.main-notification-endpoint is null or absent, construction fails
\* with InvalidConfigError and with no other kind of error.
C1_MissingRequiredRaisesInvalidConfigError ==
    ( /\ Attempted
      /\ \E x \in { GivenRole, GivenConfig, GivenRegion, self.organization_id,
                    GivenTargets, GivenMoves, GivenEndpoints } : IsNone(x) )
    => err.kind = "InvalidConfigError"

\* C2: in an otherwise valid document a deployment-account sequence of more
\* than one element fails with InvalidConfigError, a one-element sequence or
\* a scalar succeeds and yields that single element; after every successful
\* construction deployment_account_region is not a sequence.
C2_SingleDeploymentRegion ==
    /\ (Attempted /\ OtherwiseValid) =>
          /\ (IsList(GivenRegion) /\ Len(GivenRegion.v) > 1)
                => err.kind = "InvalidConfigError"
          /\ (IsList(GivenRegion) /\ Len(GivenRegion.v) = 1)
                => (Succeeded /\ self.deployment_account_region = GivenRegion.v[1])
          /\ GivenRegion.t = "str"
                => (Succeeded /\ self.deployment_account_region = GivenRegion)
    /\ Succeeded => ~IsList(self.deployment_account_region)

C2_Witness ==
    /\ Succeeded
    /\ GivenRegion = L(<<S("eu-central-1")>>)
    /\ self.deployment_account_region = S("eu-central-1")

\* C3: after successful construction target_regions is [] when the first
\* element of regions.targets is null, the given sequence unchanged when the
\* first element is non-null, and [v] when regions.targets is a scalar v.
C3_TargetRegions ==
    Succeeded =>
        /\ GivenTargets.t \in {"list", "str"}
        /\ IsList(GivenTargets) =>
              /\ GivenTargets.v # <<>>
              /\ self.target_regions =
                    IF IsNone(GivenTargets.v[1]) THEN L(<<>>) ELSE GivenTargets
        /\ GivenTargets.t = "str" => self.target_regions = L(<<GivenTargets>>)

C3_Witness ==
    /\ Succeeded
    /\ GivenTargets = L(<<S("eu-west-1"), None>>)
    /\ self.target_regions = L(<<S("eu-west-1"), None>>)

KeepDefaultScpValid(scp) ==
    Get1(scp, "keep-default-scp") \in {S("enabled"), S("disabled")}

\* C4, as stated: once the required properties are there, the scp check
\* rejects exactly when keep-default-scp is present and is neither "enabled"
\* nor "disabled"; a block without the key is not rejected.
C4_RejectsOnlyPresentInvalidValue ==
    ReachedScpCheck =>
        ( err = Raised("InvalidConfigError", 75)
          <=> ( /\ IsDict(GivenScp)
                /\ Has(GivenScp, "keep-default-scp")
                /\ ~KeepDefaultScpValid(GivenScp) ) )

\* C4, amended: the scp check rejects exactly when config.scp is a non-empty
\* mapping whose keep-default-scp is absent or is neither "enabled" nor
\* "disabled"; an absent or empty scp block is not rejected.
C4_RejectsNonEmptyScpWithoutValidValue ==
    ReachedScpCheck =>
        ( err = Raised("InvalidConfigError", 75)
          <=> ( /\ IsDict(GivenScp)
                /\ GivenScp.kv # <<>>
                /\ ~KeepDefaultScpValid(GivenScp) ) )

C4_Witness ==
    /\ err = Raised("InvalidConfigError", 75)
    /\ GivenScp = D(<< <<"other", S("x")>> >>)

C6_ExtensionDefaults ==
    ExtensionsParsed =>
        /\ \A i \in 1..Len(AVAILABLE_EXTENSIONS) :
              Has(self.extensions, AVAILABLE_EXTENSIONS[i])
        /\ Keys(GivenExtensions) \subseteq Keys(self.extensions)
        /\ \A k \in Keys(self.extensions) :
              IF Has(GivenExtensions, k)
              THEN Get1(self.extensions, k) = Get1(GivenExtensions, k)
              ELSE Get1(self.extensions, k) = D(<< <<"enabled", B(FALSE)>> >>)
        /\ Len(self.extensions.kv) = Cardinality(Keys(self.extensions))
        /\ GivenExtensions = D(<<>>) =>
              self.extensions =
                  D(<< <<"terraform", D(<< <<"enabled", B(FALSE)>> >>)>> >>)

C6_Witness ==
    /\ ExtensionsParsed
    /\ GivenExtensions = D(<< <<"terraform", Terraform>> >>)
    /\ self.extensions = GivenExtensions

(***************************************************************************)
(* Persisting: C7 - C10, under Spec                                         *)
(***************************************************************************)
Primary == "_store_config"
Replica == "_store_cross_region_config"

\* The indices of the log entries of call n made by the given pass
Entries(n, pass) ==
    {i \in 1..Len(log) : log[i].call = n /\ log[i].pass = pass}

\* Call n has gone through all of _store_config / has returned normally
PrimaryDone(n) ==
    \/ Entries(n, Replica) # {}
    \/ (calls = n /\ phase = Replica)
Returned(n) ==
    \E i \in Entries(n, Replica) :
        log[i].key = "cross_account_access_role" /\ log[i].ok

\* (store, key, value) of the writes of call n
WriteSet(n) ==
    { [region |-> log[i].client.region, key |-> log[i].key, value |-> log[i].value] :
        i \in {j \in 1..Len(log) : log[j].call = n} }

\* The stores' contents after the first k put_parameter calls, a failed one
\* writing nothing
RECURSIVE Replay(_)
Replay(k) ==
    IF k = 0 THEN {}
    ELSE IF log[k].ok
         THEN PutParameter(Replay(k - 1), log[k].client.region,
                           log[k].key, log[k].value)
         ELSE Replay(k - 1)

LastOf(n) == CHOOSE i \in 1..Len(log) :
                 log[i].call = n /\ \A j \in 1..Len(log) : log[j].call = n => j <= i

NeverWritten ==
    { "client", "client_deployment_region", "parameters_client",
      "config_contents", "config_path", "notification_endpoint",
      "notification_type", "extensions" }

\* C7: in any sequence of store_config calls _store_config never puts a
\* parameter named client, client_deployment_region, parameters_client,
\* config_contents, config_path, notification_endpoint, notification_type or
\* extensions; it writes every other field once, under its name, with its
\* str() value, and the extensions only as one write per (extension,
\* attribute) under /adf/extensions/{extension}/{attribute}.
C7_PrimaryPassKeys ==
    /\ \A i \in 1..Len(log) :
          log[i].pass = Primary =>
              /\ log[i].key \notin NeverWritten
              /\ log[i].client = self.parameters_client
    /\ \A n \in 1..calls :
          PrimaryDone(n) =>
              /\ \A f \in (DOMAIN self) \ NeverWritten :
                    /\ Cardinality({i \in Entries(n, Primary) : log[i].key = f}) = 1
                    /\ \A i \in Entries(n, Primary) :
                          log[i].key = f => log[i].value = S(PyStr(self[f]))
              /\ \A e \in Keys(self.extensions) :
                    \A a \in Keys(Get1(self.extensions, e)) :
                        LET k == "/adf/extensions/" \o e \o "/" \o a
                        IN  /\ Cardinality({i \in Entries(n, Primary) :
                                               log[i].key = k}) = 1
                            /\ \A i \in Entries(n, Primary) :
                                  log[i].key = k =>
                                      log[i].value =
                                          S(PyStr(Get1(Get1(self.extensions, e), a)))
              /\ \A i \in Entries(n, Primary) :
                    \/ log[i].key \in (DOMAIN self) \ NeverWritten
                    \/ \E e \in Keys(self.extensions) :
                          \E a \in Keys(Get1(self.extensions, e)) :
                              log[i].key = "/adf/extensions/" \o e \o "/" \o a

C7_Witness ==
    /\ calls = 2
    /\ phase = Replica
    /\ self.client_deployment_region # None
    /\ Has(self.extensions, "custom")
    /\ \E i \in Entries(2, Primary) : log[i].key = "/adf/extensions/terraform/version"

\* C8: a second store_config on the unchanged Config issues the same set of
\* (store, key, value) writes as the first, and the stores hold after the
\* second call what they held after the first.
C8_StoreConfigIdempotent ==
    \A n \in 1..calls : \A m \in 1..calls :
        (n < m /\ Returned(n) /\ Returned(m)) =>
            /\ WriteSet(m) = WriteSet(n)
            /\ m = n + 1 => Replay(LastOf(m)) = Replay(LastOf(n))

C8_Witness ==
    /\ calls = 2
    /\ Returned(1)
    /\ Returned(2)
    /\ store = Replay(LastOf(1))

\* C9: _store_cross_region_config writes through a client bound to the
\* model's deployment_account_region, the normalized scalar, not through the
\* primary client, and writes there exactly adf_version with the framework
\* version and cross_account_access_role with the model's role.
C9_ReplicaPass ==
    /\ \A i \in 1..Len(log) :
          log[i].pass = Replica =>
              /\ log[i].client.t = "client"
              /\ log[i].client # self.parameters_client
              /\ log[i].client.region = self.deployment_account_region
              /\ ~IsList(log[i].client.region)
              /\ log[i].client.region = IF IsList(GivenRegion)
                                        THEN GivenRegion.v[1] ELSE GivenRegion
    /\ \A n \in 1..calls :
          Returned(n) =>
              /\ Cardinality(Entries(n, Replica)) = 2
              /\ { <<log[i].key, log[i].value>> : i \in Entries(n, Replica) } =
                    { <<"adf_version", S(ADF_VERSION)>>,
                      <<"cross_account_access_role", self.cross_account_access_role>> }

C9_Witness ==
    /\ Returned(1)
    /\ GivenRegion = L(<<S("eu-central-1")>>)
    /\ [region |-> S("eu-central-1"), key |-> "adf_version",
        value |-> S(ADF_VERSION)] \in store

\* C10: the writes of a store_config call are issued one after the other,
\* all of _store_config before those of _store_cross_region_config; a failed
\* put_parameter ends the call with the failure reaching the caller, nothing
\* is written or retried after it in that call, and what was written stays.
C10_SequentialFailStop ==
    /\ \A i \in 1..(Len(log) - 1) :
          /\ log[i].call <= log[i + 1].call
          /\ log[i].call = log[i + 1].call =>
                /\ log[i].ok
                /\ log[i].pass = Replica => log[i + 1].pass = Replica
    /\ \A n \in 1..calls :
          /\ Cardinality({log[i].key : i \in Entries(n, Primary)})
                = Cardinality(Entries(n, Primary))
          /\ Cardinality({log[i].key : i \in Entries(n, Replica)})
                = Cardinality(Entries(n, Replica))
    /\ \A n \in 1..calls :
          Entries(n, Replica) # {} =>
              /\ Cardinality(Entries(n, Primary)) = Len(PrimaryWrites(self))
              /\ \A i \in Entries(n, Primary) : log[i].ok
    /\ (phase = "constructed" /\ calls > 0) =>
          /\ log # <<>>
          /\ log[Len(log)].call = calls
          /\ result = IF log[Len(log)].ok THEN "ok" ELSE "PersistenceError"
    /\ phase \in {Primary, Replica} => result = "running"
    /\ store = Replay(Len(log))
    /\ \A i \in 1..Len(log) :
          log[i].ok => \E e \in store :
                          e.region = log[i].client.region /\ e.key = log[i].key

C10_Witness ==
    /\ result = "PersistenceError"
    /\ phase = "constructed"
    /\ Len(log) > 2
    /\ log[Len(log)].pass = Primary
    /\ ~log[Len(log)].ok
    /\ Cardinality(store) = Len(log) - 1

====
